---- MODULE Spec2Model ----
(***************************************************************************)
(* optimistate: runOptimistic (src/src/lib/run-optimistic.ts).             *)
(*                                                                         *)
(* JavaScript runs one task at a time.  The synchronous part of a call of  *)
(* runOptimistic and the continuation after `await operation(...)` each   *)
(* run to completion; between them other tasks (further calls, other       *)
(* continuations) may run.  The executor calls user code (cell accessors,  *)
(* mutate, status/error setters, operation, rollback) between its own      *)
(* statements, so every statement group is a step of its own: `stack`      *)
(* holds the run whose code is executing, and while it is not empty only   *)
(* that run's next step is enabled.                                        *)
(***************************************************************************)
EXTENDS Integers, Sequences, FiniteSets, TLC

\* ---------------------------------------------------------------- bounds
\* calls of runOptimistic the host program makes, and how many of them may
\* start a run of their own (the others attach to a run in flight)
MaxCalls == 3
MaxRuns == 2
\* actions the host program makes with createOptimisticAction
MaxActions == 1

\* ------------------------------------------------------- value universes
OpKeys == {1}
\* the descriptors of a host program that has two of them
Descriptors == {1, 2}
Keys == {"a", "b"}
SourceSets == {{}, {"a"}, {"a", "b"}}
Payloads == {1, -1}
InitialValue(k) == IF k = "a" THEN 0 ELSE 5
CustomValue == 999
\* the value another party of the host program writes into a cell
ExternalValue == 77

Null == [null |-> TRUE]
MissingSourceError == [message |-> "runOptimistic requires at least one source to update."]
MutateError == [thrownBy |-> "mutate"]
RollbackError == [thrownBy |-> "rollback"]
NoSnapshot == [k \in {} |-> 0]
NoCtx == [payload |-> 0, optimistic |-> NoSnapshot, snapshot |-> NoSnapshot, error |-> Null]

OptimisticActionStatus == {"idle", "pending", "success", "error"}

\* The descriptors a caller can pass to runOptimistic.
OptimisticOperation ==
    [sources : SourceSets,
     mutate : {"add", "replace", "throws"},
     rollback : {"none", "noop", "partial", "custom", "throws"},
     concurrency : {"unset", "allow", "ignore"},
     status : BOOLEAN,
     error : BOOLEAN]

VARIABLES
    ops,              \* descriptor identity -> descriptor
    cell,             \* source key -> value of the caller's cell
    statusCell,       \* descriptor -> value of its status target
    errorCell,        \* descriptor -> value of its error target
    inFlightCount,    \* WeakMap descriptor -> number
    inFlightPromise,  \* WeakMap descriptor -> promise (run id)
    runs,             \* one record per execution of the async body
    calls,            \* one record per call of runOptimistic
    stack,            \* runs whose code is executing, innermost last
    actions           \* the objects createOptimisticAction has returned

vars == <<ops, cell, statusCell, errorCell, inFlightCount, inFlightPromise,
          runs, calls, stack, actions>>

\* ------------------------------------------------------------- WeakMap
EmptyMap == [k \in {} |-> 0]
Has(m, k) == k \in DOMAIN m
Get(m, k, dflt) == IF k \in DOMAIN m THEN m[k] ELSE dflt
Put(m, k, v) == [x \in (DOMAIN m) \cup {k} |-> IF x = k THEN v ELSE m[x]]
\* Faulty variant of Delete: the map is not keyed by descriptor, deleting
\* one entry empties it.
DeleteEverything(m, k) == EmptyMap

Delete(m, k) == [x \in (DOMAIN m) \ {k} |-> m[x]]

\* ------------------------------------------------------------- targets
readTarget(c, k) == c[k]

writeTarget(c, k, next) == [c EXCEPT ![k] = next]

setTarget(configured, c, d, next) ==
    IF ~configured THEN c ELSE writeTarget(c, d, next)

\* The target a descriptor names.  A target a caller put into descriptor d
\* is identified by d; a descriptor made by createOptimisticAction carries
\* the identities of the targets merged into it.
statusOf(d) == IF "statusRef" \in DOMAIN ops[d] THEN ops[d].statusRef ELSE d
errorOf(d) == IF "errorRef" \in DOMAIN ops[d] THEN ops[d].errorRef ELSE d

\* Faulty variant of setStatus: a successful run puts the target back to
\* `idle`.
setStatusBackToIdle(d, next) ==
    setTarget(ops[d].status, statusCell, statusOf(d),
              IF next = "success" THEN "idle" ELSE next)

\* const setStatus = (statusRef, next) => setTarget(statusRef, next)

setStatus(d, next) == setTarget(ops[d].status, statusCell, statusOf(d), next)

setError(d, next) == setTarget(ops[d].error, errorCell, errorOf(d), next)

\* Faulty variant of Concurrency: a descriptor naming no policy is treated
\* as `ignore`.
ConcurrencyDefaultsToIgnore(op) ==
    IF op.concurrency = "unset" THEN "ignore" ELSE op.concurrency

\* const { concurrency = 'allow' } = op

Concurrency(op) == IF op.concurrency = "unset" THEN "allow" ELSE op.concurrency

\* The caller's mutation function, a pure function of snapshot and payload:
\* "add" adds the payload to every value, "replace" replaces every value by
\* the payload ("throws" never returns, see Mutate).
mutate(kind, snapshot, payload) ==
    [k \in DOMAIN snapshot |->
        IF kind = "add" THEN snapshot[k] + payload ELSE payload]

\* Faulty variant of TakeSnapshot: the snapshot holds the values the cells
\* had at construction instead of their current values.
TakeSnapshotInitial(c, keys) == [k \in keys |-> InitialValue(k)]

\* for (const key of keys) snapshot[key] = readTarget(sources[key])
TakeSnapshot(c, keys) == [k \in keys |-> readTarget(c, k)]

\* for (const key of keys) writeTarget(sources[key], values[key])
WriteAll(c, keys, values) ==
    [k \in DOMAIN c |-> IF k \in keys THEN values[k] ELSE c[k]]

\* ---------------------------------------------------------------- runs
Top == stack[Len(stack)]
Pop == SubSeq(stack, 1, Len(stack) - 1)
Running(pc) == stack # <<>> /\ runs[Top].pc = pc

\* Faulty variant of NewRun: the empty-source check (66-68) is missing.
NewRunUnchecked(d, payload, active, keys) ==
    [op |-> d, payload |-> payload, active |-> active,
     concurrent |-> {r \in 1..Len(runs) : runs[r].pc # "done"},
     pc |-> "snapshot",
     snapshot |-> NoSnapshot, optimistic |-> NoSnapshot,
     mutated |-> 0, invoked |-> 0, rolledBack |-> 0,
     opCtx |-> NoCtx, rollbackCtx |-> NoCtx,
     opState |-> "none", opValue |-> Null,
     err |-> Null, completion |-> "none", completionValue |-> Null,
     state |-> "pending",
     value |-> Null]

\* `concurrent` is history kept for stating properties: the runs that had
\* not finished when this one started.
NewRun(d, payload, active, keys) ==
    [op |-> d, payload |-> payload, active |-> active,
     concurrent |-> {r \in 1..Len(runs) : runs[r].pc # "done"},
     pc |-> IF keys = {} THEN "return" ELSE "snapshot",
     snapshot |-> NoSnapshot, optimistic |-> NoSnapshot,
     mutated |-> 0, invoked |-> 0, rolledBack |-> 0,
     opCtx |-> NoCtx, rollbackCtx |-> NoCtx,
     opState |-> "none", opValue |-> Null,
     err |-> Null, completion |-> "none", completionValue |-> Null,
     state |-> IF keys = {} THEN "rejected" ELSE "pending",
     value |-> IF keys = {} THEN MissingSourceError ELSE Null]

Init ==
    /\ ops \in [OpKeys -> OptimisticOperation]
    /\ cell = [k \in Keys |-> InitialValue(k)]
    /\ statusCell = [d \in OpKeys |-> "idle"]
    /\ errorCell = [d \in OpKeys |-> Null]
    /\ actions = <<>>
    /\ inFlightCount = EmptyMap
    /\ inFlightPromise = EmptyMap
    /\ runs = <<>>
    /\ calls = <<>>
    /\ stack = <<>>

\* Faulty variant of runOptimistic: an attached call is counted as in flight.
runOptimisticAttachCounts(d, payload) ==
    LET active == Get(inFlightCount, d, 0)
        keys == ops[d].sources
        id == Len(runs) + 1
    IN  IF Concurrency(ops[d]) = "ignore" /\ active > 0 /\ Has(inFlightPromise, d)
        THEN /\ calls' = Append(calls, [op |-> d, payload |-> payload,
                                        promise |-> inFlightPromise[d],
                                        attached |-> TRUE])
             /\ inFlightCount' = Put(inFlightCount, d, active + 1)
             /\ UNCHANGED <<ops, actions, cell, statusCell, errorCell,
                            inFlightPromise, runs, stack>>
        ELSE /\ inFlightCount' = Put(inFlightCount, d, active + 1)
             /\ runs' = Append(runs, NewRun(d, payload, active, keys))
             /\ stack' = Append(stack, id)
             /\ calls' = Append(calls, [op |-> d, payload |-> payload,
                                        promise |-> id, attached |-> FALSE])
             /\ UNCHANGED <<ops, actions, cell, statusCell, errorCell, inFlightPromise>>

\* run-optimistic.ts 48-68: the concurrency gate, then the start of the
\* async body up to the empty-source check.
runOptimistic(d, payload) ==
    LET active == Get(inFlightCount, d, 0)
        keys == ops[d].sources
        id == Len(runs) + 1
    IN  IF Concurrency(ops[d]) = "ignore" /\ active > 0 /\ Has(inFlightPromise, d)
        THEN /\ calls' = Append(calls, [op |-> d, payload |-> payload,
                                        promise |-> inFlightPromise[d],
                                        attached |-> TRUE])
             /\ UNCHANGED <<ops, actions, cell, statusCell, errorCell, inFlightCount,
                            inFlightPromise, runs, stack>>
        ELSE /\ inFlightCount' = Put(inFlightCount, d, active + 1)
             /\ runs' = Append(runs, NewRun(d, payload, active, keys))
             /\ stack' = Append(stack, id)
             /\ calls' = Append(calls, [op |-> d, payload |-> payload,
                                        promise |-> id, attached |-> FALSE])
             /\ UNCHANGED <<ops, actions, cell, statusCell, errorCell, inFlightPromise>>

\* A task of the host program calls runOptimistic.
Call ==
    /\ stack = <<>>
    /\ Len(calls) < MaxCalls
    /\ \E d \in DOMAIN ops, payload \in Payloads :
        /\ runOptimistic(d, payload)
        /\ Len(runs') <= MaxRuns

\* Faulty variant of Snapshot: the snapshot of the previous run is used
\* again instead of reading the cells.
SnapshotCached ==
    /\ Running("snapshot")
    /\ runs' = [runs EXCEPT
            ![Top].snapshot = IF Top > 1 /\ runs[Top - 1].snapshot # NoSnapshot
                              THEN runs[Top - 1].snapshot
                              ELSE TakeSnapshot(cell, ops[runs[Top].op].sources),
            ![Top].pc = "mutate"]
    /\ UNCHANGED <<ops, actions, cell, statusCell, errorCell, inFlightCount,
                   inFlightPromise, calls, stack>>

\* run-optimistic.ts 69-73
Snapshot ==
    /\ Running("snapshot")
    /\ runs' = [runs EXCEPT ![Top].snapshot = TakeSnapshot(cell, ops[runs[Top].op].sources),
                            ![Top].pc = "mutate"]
    /\ UNCHANGED <<ops, actions, cell, statusCell, errorCell, inFlightCount,
                   inFlightPromise, calls, stack>>

\* run-optimistic.ts 75: mutate returns the optimistic snapshot, or throws;
\* a throw here is outside the try block, so the async body ends rejected
\* without running the finally block.
Mutate ==
    /\ Running("mutate")
    /\ LET throws == ops[runs[Top].op].mutate = "throws" IN
        runs' = [runs EXCEPT
            ![Top].mutated = @ + 1,
            ![Top].optimistic =
                IF throws THEN @
                ELSE mutate(ops[runs[Top].op].mutate, runs[Top].snapshot, runs[Top].payload),
            ![Top].state = IF throws THEN "rejected" ELSE @,
            ![Top].value = IF throws THEN MutateError ELSE @,
            ![Top].pc = IF throws THEN "return" ELSE "apply"]
    /\ UNCHANGED <<ops, actions, cell, statusCell, errorCell, inFlightCount,
                   inFlightPromise, calls, stack>>

\* Faulty variant of Apply: only the first key is written.
ApplyFirstKeyOnly ==
    /\ Running("apply")
    /\ cell' = WriteAll(cell, ops[runs[Top].op].sources \cap {"a"}, runs[Top].optimistic)
    /\ runs' = [runs EXCEPT ![Top].pc = "pending"]
    /\ UNCHANGED <<ops, actions, statusCell, errorCell, inFlightCount,
                   inFlightPromise, calls, stack>>

\* Faulty variant of Apply: the cells are not written before the pending
\* announcement.
ApplyDeferred ==
    /\ Running("apply")
    /\ runs' = [runs EXCEPT ![Top].pc = "pending"]
    /\ UNCHANGED <<ops, actions, cell, statusCell, errorCell, inFlightCount,
                   inFlightPromise, calls, stack>>

\* run-optimistic.ts 77-79
Apply ==
    /\ Running("apply")
    /\ cell' = WriteAll(cell, ops[runs[Top].op].sources, runs[Top].optimistic)
    /\ runs' = [runs EXCEPT ![Top].pc = "pending"]
    /\ UNCHANGED <<ops, actions, statusCell, errorCell, inFlightCount,
                   inFlightPromise, calls, stack>>

\* Faulty variant of AnnouncePending: the status target is not written.
AnnouncePendingSkipped ==
    /\ Running("pending")
    /\ runs' = [runs EXCEPT ![Top].pc = "clear"]
    /\ UNCHANGED <<ops, actions, cell, statusCell, errorCell, inFlightCount,
                   inFlightPromise, calls, stack>>

\* run-optimistic.ts 81
AnnouncePending ==
    /\ Running("pending")
    /\ statusCell' = setStatus(runs[Top].op, "pending")
    /\ runs' = [runs EXCEPT ![Top].pc = "clear"]
    /\ UNCHANGED <<ops, actions, cell, errorCell, inFlightCount,
                   inFlightPromise, calls, stack>>

\* Faulty variant of ClearError: the error target keeps its value.
ClearErrorSkipped ==
    /\ Running("clear")
    /\ runs' = [runs EXCEPT ![Top].pc = "confirm"]
    /\ UNCHANGED <<ops, actions, cell, statusCell, errorCell, inFlightCount,
                   inFlightPromise, calls, stack>>

\* run-optimistic.ts 82
ClearError ==
    /\ Running("clear")
    /\ errorCell' = setError(runs[Top].op, Null)
    /\ runs' = [runs EXCEPT ![Top].pc = "confirm"]
    /\ UNCHANGED <<ops, actions, cell, statusCell, inFlightCount,
                   inFlightPromise, calls, stack>>

\* Faulty variant of Confirm: the snapshot handed to operation is not a
\* copy, it shows the cells as Apply left them.
ConfirmSharesCells ==
    /\ Running("confirm")
    /\ runs' = [runs EXCEPT
            ![Top].invoked = @ + 1,
            ![Top].opCtx = [payload |-> runs[Top].payload,
                            optimistic |-> runs[Top].optimistic,
                            snapshot |-> TakeSnapshot(cell, ops[runs[Top].op].sources),
                            error |-> Null],
            ![Top].opState = "pending",
            ![Top].pc = "return"]
    /\ UNCHANGED <<ops, actions, cell, statusCell, errorCell, inFlightCount,
                   inFlightPromise, calls, stack>>

\* run-optimistic.ts 85: operation({ payload, optimistic, snapshot }) is
\* called; the async body then suspends on the promise it returned.
Confirm ==
    /\ Running("confirm")
    /\ runs' = [runs EXCEPT
            ![Top].invoked = @ + 1,
            ![Top].opCtx = [payload |-> runs[Top].payload,
                            optimistic |-> runs[Top].optimistic,
                            snapshot |-> runs[Top].snapshot,
                            error |-> Null],
            ![Top].opState = "pending",
            ![Top].pc = "return"]
    /\ UNCHANGED <<ops, actions, cell, statusCell, errorCell, inFlightCount,
                   inFlightPromise, calls, stack>>

\* Faulty variant of Return: the promise is not stored (110 missing).
ReturnWithoutStoring ==
    /\ Running("return")
    /\ runs' = [runs EXCEPT ![Top].pc = IF runs[Top].state = "pending" THEN "await" ELSE "done"]
    /\ stack' = Pop
    /\ UNCHANGED <<ops, actions, cell, statusCell, errorCell, inFlightCount,
                   inFlightPromise, calls>>

\* run-optimistic.ts 110-111: the async body has suspended or ended;
\* its promise is stored and returned to the caller.
Return ==
    /\ Running("return")
    /\ inFlightPromise' = Put(inFlightPromise, runs[Top].op, Top)
    /\ runs' = [runs EXCEPT ![Top].pc = IF runs[Top].state = "pending" THEN "await" ELSE "done"]
    /\ stack' = Pop
    /\ UNCHANGED <<ops, actions, cell, statusCell, errorCell, inFlightCount, calls>>

\* The operation's result and failure values are the caller's own; each
\* invocation produces a value no other invocation produces.
OperationResult(r) == [result |-> r]
OperationFailure(r) == [failure |-> r]

\* The promise returned by operation(...) settles (host program / network).
OperationSettles ==
    /\ stack = <<>>
    /\ \E r \in 1..Len(runs), ok \in BOOLEAN :
        /\ runs[r].pc = "await"
        /\ runs[r].opState = "pending"
        /\ runs' = [runs EXCEPT
                ![r].opState = IF ok THEN "resolved" ELSE "rejected",
                ![r].opValue = IF ok THEN OperationResult(r) ELSE OperationFailure(r)]
    /\ UNCHANGED <<ops, actions, cell, statusCell, errorCell, inFlightCount,
                   inFlightPromise, calls, stack>>

\* Faulty variant of OnSuccess: the prior values are written back on success.
OnSuccessRestores ==
    /\ stack = <<>>
    /\ \E r \in 1..Len(runs) :
        /\ runs[r].pc = "await"
        /\ runs[r].opState = "resolved"
        /\ statusCell' = setStatus(runs[r].op, "success")
        /\ cell' = WriteAll(cell, ops[runs[r].op].sources, runs[r].snapshot)
        /\ runs' = [runs EXCEPT ![r].pc = "finally",
                                ![r].completion = "return",
                                ![r].completionValue = runs[r].opValue]
        /\ stack' = <<r>>
    /\ UNCHANGED <<ops, actions, errorCell, inFlightCount, inFlightPromise, calls>>

\* Faulty variant of OnSuccess: the optimistic values are written again
\* when the operation has succeeded.
OnSuccessReapplies ==
    /\ stack = <<>>
    /\ \E r \in 1..Len(runs) :
        /\ runs[r].pc = "await"
        /\ runs[r].opState = "resolved"
        /\ statusCell' = setStatus(runs[r].op, "success")
        /\ cell' = WriteAll(cell, ops[runs[r].op].sources, runs[r].optimistic)
        /\ runs' = [runs EXCEPT ![r].pc = "finally",
                                ![r].completion = "return",
                                ![r].completionValue = runs[r].opValue]
        /\ stack' = <<r>>
    /\ UNCHANGED <<ops, actions, errorCell, inFlightCount, inFlightPromise, calls>>

\* run-optimistic.ts 85-87: the await resumes with the result.
OnSuccess ==
    /\ stack = <<>>
    /\ \E r \in 1..Len(runs) :
        /\ runs[r].pc = "await"
        /\ runs[r].opState = "resolved"
        /\ statusCell' = setStatus(runs[r].op, "success")
        /\ runs' = [runs EXCEPT ![r].pc = "finally",
                                ![r].completion = "return",
                                ![r].completionValue = runs[r].opValue]
        /\ stack' = <<r>>
    /\ UNCHANGED <<ops, actions, cell, errorCell, inFlightCount, inFlightPromise, calls>>

\* The caller's rollback handler.  What it does to the cells is its own
\* business: "noop" writes nothing, "partial" writes the prior value of key
\* "a" only, "custom" writes a value of its own into every cell, "throws"
\* fails before writing anything.
rollback(kind, c, keys, snapshot) ==
    [k \in DOMAIN c |->
        IF k \notin keys THEN c[k]
        ELSE IF kind = "partial" /\ k = "a" THEN snapshot[k]
        ELSE IF kind = "custom" THEN CustomValue
        ELSE c[k]]

\* Faulty variant of RollbackCells: no automatic restore (92-94 missing).
RollbackCellsSkipped(kind, c, keys, snapshot) ==
    IF kind # "none" THEN rollback(kind, c, keys, snapshot) ELSE c

\* Faulty variant of RollbackCells: automatic restore also after a handler.
RollbackCellsAlwaysRestores(kind, c, keys, snapshot) ==
    WriteAll(IF kind # "none" THEN rollback(kind, c, keys, snapshot) ELSE c,
             keys, snapshot)

\* Faulty variant of RollbackCells: the automatic rollback restores the
\* first key only.
RollbackCellsFirstKeyOnly(kind, c, keys, snapshot) ==
    IF kind # "none"
    THEN rollback(kind, c, keys, snapshot)
    ELSE WriteAll(c, keys \cap {"a"}, snapshot)

\* run-optimistic.ts 89-95: the cells after the rollback step.
RollbackCells(kind, c, keys, snapshot) ==
    IF kind # "none"
    THEN rollback(kind, c, keys, snapshot)
    ELSE WriteAll(c, keys, snapshot)

\* Faulty variant of OnFailure: a failure of the rollback handler is caught
\* and the catch block goes on to lines 96-98.
OnFailureGuarded ==
    /\ stack = <<>>
    /\ \E r \in 1..Len(runs) :
        LET d == runs[r].op
            keys == ops[d].sources
            err == runs[r].opValue
            custom == ops[d].rollback # "none"
        IN  /\ runs[r].pc = "await"
            /\ runs[r].opState = "rejected"
            /\ cell' = RollbackCells(ops[d].rollback, cell, keys, runs[r].snapshot)
            /\ runs' = [runs EXCEPT
                    ![r].err = err,
                    ![r].rolledBack = IF custom THEN @ + 1 ELSE @,
                    ![r].rollbackCtx =
                        IF custom
                        THEN [payload |-> runs[r].payload,
                              optimistic |-> runs[r].optimistic,
                              snapshot |-> runs[r].snapshot,
                              error |-> err]
                        ELSE @,
                    ![r].pc = "status_error"]
            /\ stack' = <<r>>
    /\ UNCHANGED <<ops, actions, statusCell, errorCell, inFlightCount, inFlightPromise, calls>>

\* run-optimistic.ts 88-95: the await resumes with the failure; rollback.
\* A handler that throws ends the catch block: lines 96-98 are skipped and
\* the handler's failure is what the async body rejects with.
OnFailure ==
    /\ stack = <<>>
    /\ \E r \in 1..Len(runs) :
        LET d == runs[r].op
            keys == ops[d].sources
            err == runs[r].opValue
            custom == ops[d].rollback # "none"
            throws == ops[d].rollback = "throws"
        IN  /\ runs[r].pc = "await"
            /\ runs[r].opState = "rejected"
            /\ cell' = RollbackCells(ops[d].rollback, cell, keys, runs[r].snapshot)
            /\ runs' = [runs EXCEPT
                    ![r].err = err,
                    ![r].rolledBack = IF custom THEN @ + 1 ELSE @,
                    ![r].rollbackCtx =
                        IF custom
                        THEN [payload |-> runs[r].payload,
                              optimistic |-> runs[r].optimistic,
                              snapshot |-> runs[r].snapshot,
                              error |-> err]
                        ELSE @,
                    ![r].completion = IF throws THEN "throw" ELSE @,
                    ![r].completionValue = IF throws THEN RollbackError ELSE @,
                    ![r].pc = IF throws THEN "finally" ELSE "status_error"]
            /\ stack' = <<r>>
    /\ UNCHANGED <<ops, actions, statusCell, errorCell, inFlightCount, inFlightPromise, calls>>

\* Faulty variant of StatusError: the status write (96) is missing.
StatusErrorSkipped ==
    /\ Running("status_error")
    /\ runs' = [runs EXCEPT ![Top].pc = "set_error"]
    /\ UNCHANGED <<ops, actions, cell, statusCell, errorCell, inFlightCount,
                   inFlightPromise, calls, stack>>

\* run-optimistic.ts 96
StatusError ==
    /\ Running("status_error")
    /\ statusCell' = setStatus(runs[Top].op, "error")
    /\ runs' = [runs EXCEPT ![Top].pc = "set_error"]
    /\ UNCHANGED <<ops, actions, cell, errorCell, inFlightCount,
                   inFlightPromise, calls, stack>>

\* Faulty variant of ErrorTarget: the failure is not rethrown (98 missing).
ErrorTargetSwallows ==
    /\ Running("set_error")
    /\ errorCell' = setError(runs[Top].op, runs[Top].err)
    /\ runs' = [runs EXCEPT ![Top].pc = "finally",
                            ![Top].completion = "return",
                            ![Top].completionValue = Null]
    /\ UNCHANGED <<ops, actions, cell, statusCell, inFlightCount,
                   inFlightPromise, calls, stack>>

\* run-optimistic.ts 97-98
ErrorTarget ==
    /\ Running("set_error")
    /\ errorCell' = setError(runs[Top].op, runs[Top].err)
    /\ runs' = [runs EXCEPT ![Top].pc = "finally",
                            ![Top].completion = "throw",
                            ![Top].completionValue = runs[Top].err]
    /\ UNCHANGED <<ops, actions, cell, statusCell, inFlightCount,
                   inFlightPromise, calls, stack>>

\* Faulty variant of Finally: the in-flight entries are left as they are.
FinallyKeepsEntries ==
    /\ Running("finally")
    /\ UNCHANGED <<inFlightCount, inFlightPromise>>
    /\ runs' = [runs EXCEPT
            ![Top].pc = "done",
            ![Top].state = IF runs[Top].completion = "return" THEN "fulfilled" ELSE "rejected",
            ![Top].value = runs[Top].completionValue]
    /\ stack' = Pop
    /\ UNCHANGED <<ops, actions, cell, statusCell, errorCell, calls>>

\* Faulty variant of Finally: the entries of the descriptor are deleted
\* although other runs are still in flight.
FinallyDeletesAlways ==
    /\ Running("finally")
    /\ LET r == Top
           d == runs[r].op
       IN /\ inFlightCount' = Delete(inFlightCount, d)
          /\ inFlightPromise' = Delete(inFlightPromise, d)
          /\ runs' = [runs EXCEPT
                ![r].pc = "done",
                ![r].state = IF runs[r].completion = "return"
                             THEN "fulfilled" ELSE "rejected",
                ![r].value = runs[r].completionValue]
          /\ stack' = Pop
    /\ UNCHANGED <<ops, actions, cell, statusCell, errorCell, calls>>

\* run-optimistic.ts 99-107, after which the promise of the async body
\* is fulfilled with the returned result (87) or rejected with the thrown
\* value (98, or the handler's at 90).
Finally ==
    /\ Running("finally")
    /\ LET d == runs[Top].op
           nextActive == Get(inFlightCount, d, 1) - 1
       IN  IF nextActive > 0
           THEN /\ inFlightCount' = Put(inFlightCount, d, nextActive)
                /\ UNCHANGED inFlightPromise
           ELSE /\ inFlightCount' = Delete(inFlightCount, d)
                /\ inFlightPromise' = Delete(inFlightPromise, d)
    /\ runs' = [runs EXCEPT
            ![Top].pc = "done",
            ![Top].state = IF runs[Top].completion = "return" THEN "fulfilled" ELSE "rejected",
            ![Top].value = runs[Top].completionValue]
    /\ stack' = Pop
    /\ UNCHANGED <<ops, actions, cell, statusCell, errorCell, calls>>

Next ==
    \/ Call
    \/ Snapshot
    \/ Mutate
    \/ Apply
    \/ AnnouncePending
    \/ ClearError
    \/ Confirm
    \/ Return
    \/ OperationSettles
    \/ OnSuccess
    \/ OnFailure
    \/ StatusError
    \/ ErrorTarget
    \/ Finally

Spec == Init /\ [][Next]_vars
\* ------------------------------------------------ createOptimisticAction
\* create-optimistic-action.ts 12-20: a new cell `ref` holding `initial`
createRef(c, ref, initial) == Put(c, ref, initial)

\* Faulty variant of createOptimisticAction: the targets of the descriptor
\* are put aside and new cells are created in every case.
createOptimisticActionOwnCells(op) ==
    LET d == Cardinality(DOMAIN ops) + 1
        opWithTargets ==
            [ops[op] EXCEPT !.status = TRUE, !.error = TRUE]
                @@ [statusRef |-> d, errorRef |-> d]
    IN  /\ statusCell' = createRef(statusCell, d, "idle")
        /\ errorCell' = createRef(errorCell, d, Null)
        /\ ops' = Put(ops, d, opWithTargets)
        /\ actions' = Append(actions,
                [run |-> d, status |-> d, error |-> d, op |-> op])
        /\ UNCHANGED <<cell, inFlightCount, inFlightPromise, runs, calls, stack>>

\* Faulty variant of createOptimisticAction: the targets are assigned to
\* the descriptor itself, which the action then passes to runOptimistic.
createOptimisticActionSameObject(op) ==
    LET status == statusOf(op)
        error == errorOf(op)
        opWithTargets ==
            [ops[op] EXCEPT !.status = TRUE, !.error = TRUE]
                @@ [statusRef |-> status, errorRef |-> error]
    IN  /\ ops' = Put(ops, op, opWithTargets)
        /\ actions' = Append(actions,
                [run |-> op, status |-> status, error |-> error, op |-> op])
        /\ UNCHANGED <<cell, statusCell, errorCell, inFlightCount,
                       inFlightPromise, runs, calls, stack>>

\* create-optimistic-action.ts 22-38.  d is the identity of opWithTargets,
\* a new object; a cell created here is identified by d.  The `run` field
\* of the action is the descriptor its closure passes to runOptimistic;
\* `op` records the descriptor the action was made from.
createOptimisticAction(op) ==
    LET d == Cardinality(DOMAIN ops) + 1
        status == IF ops[op].status THEN statusOf(op) ELSE d
        error == IF ops[op].error THEN errorOf(op) ELSE d
        opWithTargets ==
            [ops[op] EXCEPT !.status = TRUE, !.error = TRUE]
                @@ [statusRef |-> status, errorRef |-> error]
    IN  /\ statusCell' = IF ops[op].status THEN statusCell
                         ELSE createRef(statusCell, d, "idle")
        /\ errorCell' = IF ops[op].error THEN errorCell
                        ELSE createRef(errorCell, d, Null)
        /\ ops' = Put(ops, d, opWithTargets)
        /\ actions' = Append(actions,
                [run |-> d, status |-> status, error |-> error, op |-> op])
        /\ UNCHANGED <<cell, inFlightCount, inFlightPromise, runs, calls, stack>>

\* A task of the host program makes an action from a descriptor.
CreateAction ==
    /\ stack = <<>>
    /\ Len(actions) < MaxActions
    /\ \E op \in OpKeys : createOptimisticAction(op)

\* create-optimistic-action.ts 34: a task of the host program calls
\* action.run(payload).
ActionRun ==
    /\ stack = <<>>
    /\ Len(calls) < MaxCalls
    /\ \E a \in 1..Len(actions), payload \in Payloads :
        /\ runOptimistic(actions[a].run, payload)
        /\ Len(runs') <= MaxRuns

\* The host program also makes actions from its descriptor; the descriptor
\* has one source, an additive mutation function and no rollback handler.
InitAction ==
    /\ Init
    /\ \A d \in OpKeys :
          /\ ops[d].sources = {"a"}
          /\ ops[d].mutate = "add"
          /\ ops[d].rollback = "none"

\* The host program reaches runOptimistic through its actions only.
NextAction ==
    \/ CreateAction
    \/ ActionRun
    \/ Snapshot
    \/ Mutate
    \/ Apply
    \/ AnnouncePending
    \/ ClearError
    \/ Confirm
    \/ Return
    \/ OperationSettles
    \/ OnSuccess
    \/ OnFailure
    \/ StatusError
    \/ ErrorTarget
    \/ Finally

SpecAction == InitAction /\ [][NextAction]_vars

\* ------------------------------------------------------ re-entrant calls
\* The positions of a run's synchronous phase at which code of the caller
\* is running: inside mutate (75), in a cell setter after the last write of
\* Apply (78), in the status setter after the pending write (81), and in
\* the synchronous prefix of operation (85).
InCallerCode(r) ==
    \/ runs[r].pc \in {"mutate", "pending", "return"} /\ runs[r].state = "pending"
    \/ runs[r].pc = "clear" /\ ops[runs[r].op].status

\* Code of the caller running inside the synchronous phase of a run calls
\* runOptimistic for the same descriptor.
ReentrantCall ==
    /\ stack # <<>>
    /\ InCallerCode(Top)
    /\ Len(calls) < MaxCalls
    /\ \E payload \in Payloads :
        /\ runOptimistic(runs[Top].op, payload)
        /\ Len(runs') <= MaxRuns

\* The descriptor has one source, an additive mutation function and no
\* rollback handler; its mutation function, setters and operation may call
\* runOptimistic themselves.
InitReentrant ==
    /\ Init
    /\ \A d \in OpKeys :
          /\ ops[d].sources = {"a"}
          /\ ops[d].mutate = "add"
          /\ ops[d].rollback = "none"

NextReentrant ==
    \/ Next
    \/ ReentrantCall

SpecReentrant == InitReentrant /\ [][NextReentrant]_vars

\* --------------------------------------------------------- other writers
\* Another party of the host program (a component, a server push) writes a
\* source cell through its set method, as a task of its own.
ExternalWrite ==
    /\ stack = <<>>
    /\ \E d \in OpKeys : \E k \in ops[d].sources :
        /\ cell[k] # ExternalValue
        /\ cell' = writeTarget(cell, k, ExternalValue)
    /\ UNCHANGED <<ops, actions, statusCell, errorCell, inFlightCount,
                   inFlightPromise, runs, calls, stack>>

\* The descriptor has one source and an additive mutation function; its
\* rollback is automatic or a handler that writes the cells itself.
InitExternal ==
    /\ Init
    /\ \A d \in OpKeys :
          /\ ops[d].sources = {"a"}
          /\ ops[d].mutate = "add"
          /\ ops[d].rollback \in {"none", "custom"}

NextExternal ==
    \/ Next
    \/ ExternalWrite

SpecExternal == InitExternal /\ [][NextExternal]_vars

\* ------------------------------------------------------- two descriptors
\* The host program has two descriptors over the same source cell, each
\* with its own status and error target, an additive mutation function, no
\* rollback handler and a policy of its own.
InitTwo ==
    /\ ops \in [Descriptors ->
                 {op \in OptimisticOperation :
                     /\ op.sources = {"a"} /\ op.mutate = "add"
                     /\ op.rollback = "none"
                     /\ op.status /\ op.error}]
    /\ cell = [k \in Keys |-> InitialValue(k)]
    /\ statusCell = [d \in Descriptors |-> "idle"]
    /\ errorCell = [d \in Descriptors |-> Null]
    /\ actions = <<>>
    /\ inFlightCount = EmptyMap
    /\ inFlightPromise = EmptyMap
    /\ runs = <<>>
    /\ calls = <<>>
    /\ stack = <<>>

SpecTwo == InitTwo /\ [][Next]_vars

\* =================================================================
\* Properties
\* =================================================================
Runs == 1..Len(runs)
SourcesOf(r) == ops[runs[r].op].sources
RollbackOf(r) == ops[runs[r].op].rollback
\* what the mutation function computes from the run's prior snapshot and payload
Computed(r) == mutate(ops[runs[r].op].mutate, runs[r].snapshot, runs[r].payload)
\* the run's confirming operation has been invoked and is not yet finished with
InFlight(r) == runs[r].invoked = 1 /\ runs[r].pc \in {"return", "await"}

\* C1: every cell of the Source Set holds the value the mutation function
\* computed before operation is invoked, and still holds it when
\* runOptimistic returns the promise, at which point the confirming
\* operation has not settled.
C1_Step ==
    \A r \in Runs :
        /\ (runs[r].invoked = 0 /\ runs'[r].invoked = 1)
              => \A k \in SourcesOf(r) : cell[k] = Computed(r)[k]
        /\ (runs[r].pc = "return" /\ runs'[r].pc = "await")
              => /\ \A k \in SourcesOf(r) : cell'[k] = Computed(r)[k]
                 /\ runs'[r].invoked = 1
                 /\ runs'[r].opState = "pending"
                 /\ runs'[r].state = "pending"
C1_OptimisticBeforeReturn == [][C1_Step]_vars

C1_Witness ==
    \E r \in Runs :
        /\ runs[r].pc = "await" /\ runs[r].opState = "pending"
        /\ SourcesOf(r) = {"a", "b"}
        /\ \A k \in SourcesOf(r) :
              cell[k] = Computed(r)[k] /\ cell[k] # runs[r].snapshot[k]

\* C2: a run that overlaps no other run and whose confirming operation
\* succeeded leaves every cell of the Source Set at
\* mutate(prior snapshot, payload)[key] when it resolves.
C2_SuccessKeepsOptimistic ==
    \A r \in Runs :
        (/\ r = Len(runs)
         /\ runs[r].concurrent = {}
         /\ runs[r].pc = "done"
         /\ runs[r].state = "fulfilled")
        => \A k \in SourcesOf(r) : cell[k] = Computed(r)[k]

C2_Witness ==
    \E r \in Runs :
        /\ r = Len(runs) /\ runs[r].concurrent = {}
        /\ runs[r].pc = "done" /\ runs[r].state = "fulfilled"
        /\ SourcesOf(r) = {"a", "b"}
        /\ ops[runs[r].op].mutate = "add"
        /\ \A k \in SourcesOf(r) :
              cell[k] = runs[r].snapshot[k] + runs[r].payload

\* C3: without a custom rollback handler, the step that rejects a run after
\* its confirming operation failed leaves every cell of the Source Set at
\* the value the run read in its Snapshot step.
C3_Step ==
    \A r \in Runs :
        (/\ runs[r].pc = "finally" /\ runs'[r].pc = "done"
         /\ runs[r].opState = "rejected"
         /\ RollbackOf(r) = "none")
        => /\ runs'[r].state = "rejected"
           /\ \A k \in SourcesOf(r) : cell'[k] = runs[r].snapshot[k]
C3_AutomaticRollback == [][C3_Step]_vars

C3_Witness ==
    \E r \in Runs :
        /\ runs[r].pc = "done" /\ runs[r].opState = "rejected"
        /\ RollbackOf(r) = "none"
        /\ SourcesOf(r) = {"a", "b"}
        /\ \A k \in SourcesOf(r) :
              cell[k] = runs[r].snapshot[k] /\ cell[k] # runs[r].optimistic[k]

\* C4: with a custom rollback handler, a failed confirmation calls the
\* handler exactly once with the run's payload, optimistic snapshot, prior
\* snapshot and the failure; the cells change only by what the handler
\* writes (not at all when it writes nothing), and no later step of the
\* failure handling writes a cell.
C4_Step ==
    \A r \in Runs :
        LET kind == RollbackOf(r)
            keys == SourcesOf(r)
        IN  kind # "none" =>
            /\ (runs[r].pc = "await" /\ runs'[r].pc # "await"
                /\ runs[r].opState = "rejected")
               => /\ runs[r].rolledBack = 0 /\ runs'[r].rolledBack = 1
                  /\ runs'[r].rollbackCtx =
                        [payload |-> runs[r].payload,
                         optimistic |-> Computed(r),
                         snapshot |-> runs[r].snapshot,
                         error |-> runs[r].opValue]
                  /\ kind \in {"noop", "throws"} => cell' = cell
                  /\ kind = "custom" =>
                        \A k \in Keys :
                            cell'[k] = IF k \in keys THEN CustomValue ELSE cell[k]
                  /\ kind = "partial" =>
                        \A k \in Keys :
                            cell'[k] = IF k = "a" THEN runs[r].snapshot[k] ELSE cell[k]
            /\ (runs[r].pc \in {"status_error", "set_error", "finally"}
                /\ runs[r].opState = "rejected" /\ runs'[r] # runs[r])
               => (cell' = cell /\ runs'[r].rolledBack = 1)
C4_CustomRollbackOnly == [][C4_Step]_vars

C4_Witness ==
    \E r \in Runs :
        /\ runs[r].pc = "done" /\ runs[r].opState = "rejected"
        /\ RollbackOf(r) = "noop" /\ runs[r].rolledBack = 1
        /\ SourcesOf(r) = {"a", "b"}
        /\ \A k \in SourcesOf(r) :
              cell[k] = runs[r].optimistic[k] /\ cell[k] # runs[r].snapshot[k]
\* C5 as stated: when the operation resolves with r the run resolves with r,
\* and when it fails with e the run rejects with exactly e.
C5_Original ==
    \A r \in Runs :
        (runs[r].pc = "done" /\ runs[r].invoked = 1) =>
            /\ runs[r].opState = "resolved" =>
                  (runs[r].state = "fulfilled" /\ runs[r].value = OperationResult(r))
            /\ runs[r].opState = "rejected" =>
                  (runs[r].state = "rejected" /\ runs[r].value = OperationFailure(r))

\* C5 (amended): when the operation resolves with r the run resolves with
\* r; when it fails with e the run rejects, never resolves, and rejects with
\* exactly e unless a custom rollback handler itself failed, in which case
\* it rejects with the handler's failure.
C5_SettlementMirrors ==
    \A r \in Runs :
        (runs[r].pc = "done" /\ runs[r].invoked = 1) =>
            /\ runs[r].opState \in {"resolved", "rejected"}
            /\ runs[r].opState = "resolved" =>
                  (runs[r].state = "fulfilled" /\ runs[r].value = OperationResult(r))
            /\ runs[r].opState = "rejected" =>
                  /\ runs[r].state = "rejected"
                  /\ runs[r].value =
                        IF RollbackOf(r) = "throws" THEN RollbackError
                        ELSE OperationFailure(r)

C5_Witness ==
    \E r1, r2 \in Runs :
        /\ runs[r1].pc = "done" /\ runs[r1].state = "fulfilled"
        /\ runs[r1].value = OperationResult(r1)
        /\ runs[r2].pc = "done" /\ runs[r2].state = "rejected"
        /\ runs[r2].value = OperationFailure(r2)
        /\ RollbackOf(r2) = "custom"

\* C6: with status and error targets configured and the rollback not
\* failing, the step that rejects a run after its confirming operation
\* failed leaves the status target at `error` and the error target at the
\* value the run rejects with (the operation's failure) ...
C6_Step ==
    \A r \in Runs :
        LET d == runs[r].op IN
        (/\ runs[r].pc = "finally" /\ runs'[r].pc = "done"
         /\ runs[r].opState = "rejected"
         /\ RollbackOf(r) # "throws"
         /\ ops[d].status /\ ops[d].error)
        => /\ runs'[r].state = "rejected"
           /\ runs'[r].value = runs[r].opValue
           /\ statusCell'[d] = "error"
           /\ errorCell'[d] = runs'[r].value
\* ... and they stay so while no later call has been made, for a run that
\* overlapped no other.
C6_State ==
    \A r \in Runs :
        LET d == runs[r].op IN
        (/\ r = Len(runs) /\ runs[r].concurrent = {}
         /\ runs[r].pc = "done" /\ runs[r].opState = "rejected"
         /\ RollbackOf(r) # "throws"
         /\ ops[d].status /\ ops[d].error)
        => (statusCell[d] = "error" /\ errorCell[d] = runs[r].value)
C6_ErrorBookkeepingBeforeReject == []C6_State /\ [][C6_Step]_vars

C6_Witness ==
    \E r \in Runs :
        /\ runs[r].pc = "done" /\ runs[r].state = "rejected"
        /\ runs[r].concurrent # {}
        /\ ops[runs[r].op].status /\ ops[runs[r].op].error
        /\ statusCell[runs[r].op] = "error"
        /\ errorCell[runs[r].op] = OperationFailure(r)

\* C7: a call on a descriptor with an empty Source Set returns a promise
\* rejected with the missing-source error; mutate, operation and rollback
\* are not invoked for it and no step taken for it writes a source cell,
\* the status target or the error target.
C7_State ==
    /\ \A r \in Runs :
          SourcesOf(r) = {} =>
              /\ runs[r].state = "rejected"
              /\ runs[r].value = MissingSourceError
              /\ runs[r].mutated = 0 /\ runs[r].invoked = 0 /\ runs[r].rolledBack = 0
    /\ \A i \in 1..Len(calls) :
          ops[calls[i].op].sources = {} =>
              /\ calls[i].promise \in Runs
              /\ runs[calls[i].promise].state = "rejected"
              /\ runs[calls[i].promise].value = MissingSourceError
C7_Step ==
    \A d \in OpKeys :
        (/\ ops[d].sources = {}
         /\ \/ (Len(calls') > Len(calls) /\ calls'[Len(calls')].op = d)
            \/ \E r \in Runs : runs[r].op = d /\ runs'[r] # runs[r])
        => UNCHANGED <<cell, statusCell, errorCell>>
C7_EmptySourcesRejected == []C7_State /\ [][C7_Step]_vars

C7_Witness ==
    /\ Len(calls) = 2 /\ stack = <<>>
    /\ \A i \in 1..2 :
          /\ ops[calls[i].op].sources = {}
          /\ runs[calls[i].promise].value = MissingSourceError
    /\ ops[calls[1].op].status /\ statusCell[calls[1].op] = "idle"

\* the call made in this step, if the step is a call of runOptimistic
IsCall == Len(calls') = Len(calls) + 1
NewCall == calls'[Len(calls')]
\* a run of descriptor d whose confirming operation has not settled
Unsettled(d) ==
    {r \in Runs : runs[r].op = d /\ runs[r].pc = "await" /\ runs[r].opState = "pending"}

\* C8: with policy `ignore`, a call made while the confirming operation of
\* an earlier call on the descriptor has not settled starts no run (the
\* operation is not invoked again) and returns the promise that earlier
\* call returned.
C8_Step ==
    \A d \in OpKeys :
        (/\ IsCall /\ NewCall.op = d
         /\ ops[d].concurrency = "ignore"
         /\ Unsettled(d) # {})
        => /\ runs' = runs
           /\ NewCall.promise \in Unsettled(d)
           /\ \E i \in 1..Len(calls) :
                 calls[i].op = d /\ calls[i].promise = NewCall.promise
C8_IgnoreSharesPromise == [][C8_Step]_vars

C8_Witness ==
    /\ Len(calls) = 2 /\ Len(runs) = 1
    /\ ops[calls[1].op].concurrency = "ignore"
    /\ calls[1].promise = calls[2].promise
    /\ calls[1].payload # calls[2].payload
    /\ runs[1].invoked = 1
    /\ runs[1].pc = "done" /\ runs[1].state = "fulfilled"

\* C9: with policy `ignore`, a call that returns the promise of an earlier
\* call changes no source cell, status target, error target, in-flight
\* counter or run (so mutate is not invoked): while the run awaits, the
\* cells hold what mutate computed from the first caller's payload.
C9_Step ==
    \A d \in OpKeys :
        (/\ IsCall /\ NewCall.op = d
         /\ ops[d].concurrency = "ignore"
         /\ \E i \in 1..Len(calls) : calls[i].promise = NewCall.promise)
        => UNCHANGED <<cell, statusCell, errorCell, inFlightCount,
                       inFlightPromise, runs, stack>>
C9_State ==
    \A r \in Runs :
        (ops[runs[r].op].concurrency = "ignore" /\ runs[r].pc = "await")
        => \A k \in SourcesOf(r) : cell[k] = Computed(r)[k]
C9_AttachChangesNothing == []C9_State /\ [][C9_Step]_vars

C9_Witness ==
    /\ Len(calls) = 2 /\ Len(runs) = 1
    /\ ops[calls[1].op].concurrency = "ignore"
    /\ ops[calls[1].op].mutate = "add"
    /\ calls[2].promise = 1
    /\ calls[1].payload # calls[2].payload
    /\ runs[1].pc = "await"
    /\ inFlightCount[calls[1].op] = 1
    /\ \A k \in SourcesOf(1) : cell[k] = InitialValue(k) + calls[1].payload

\* C10: with policy `ignore`, a call made when every earlier run of the
\* descriptor has settled through its confirming operation starts a run of
\* its own, from the Snapshot step, and returns a promise no earlier call
\* returned.
C10_Step ==
    \A d \in OpKeys :
        (/\ IsCall /\ NewCall.op = d
         /\ ops[d].concurrency = "ignore"
         /\ \E r \in Runs : runs[r].op = d
         /\ \A r \in Runs :
               runs[r].op = d => (runs[r].pc = "done" /\ runs[r].invoked = 1))
        => /\ Len(runs') = Len(runs) + 1
           /\ NewCall.promise = Len(runs')
           /\ runs'[Len(runs')].pc = "snapshot"
           /\ runs'[Len(runs')].invoked = 0
           /\ \A i \in 1..Len(calls) : calls[i].promise # NewCall.promise
C10_FreshRunAfterSettle == [][C10_Step]_vars

C10_Witness ==
    /\ Len(runs) = 2 /\ Len(calls) = 2
    /\ ops[runs[1].op].concurrency = "ignore"
    /\ ops[runs[1].op].mutate = "add"
    /\ runs[2].concurrent = {}
    /\ runs[1].state = "rejected" /\ runs[1].invoked = 1
    /\ runs[2].pc = "done" /\ runs[2].invoked = 1 /\ runs[2].mutated = 1
    /\ calls[2].promise = 2
    /\ runs[2].state = "fulfilled"
    /\ \A k \in SourcesOf(2) : cell[k] = InitialValue(k) + runs[2].payload

\* C11: with policy `allow`, and when the descriptor names no policy, every
\* call starts a run of its own and returns a promise no earlier call
\* returned; for a descriptor with sources and a mutation function that
\* returns, n calls give n runs, each invoking the confirming operation
\* once and each settled by its own invocation.
C11_Step ==
    \A d \in OpKeys :
        (/\ IsCall /\ NewCall.op = d
         /\ ops[d].concurrency \in {"allow", "unset"})
        => /\ Len(runs') = Len(runs) + 1
           /\ NewCall.promise = Len(runs')
           /\ NewCall.payload = runs'[Len(runs')].payload
           /\ \A i \in 1..Len(calls) : calls[i].promise # NewCall.promise
C11_State ==
    \A d \in OpKeys :
        (/\ ops[d].concurrency \in {"allow", "unset"}
         /\ ops[d].sources # {} /\ ops[d].mutate # "throws"
         /\ stack = <<>>)
        => /\ Cardinality({r \in Runs : runs[r].op = d})
                = Cardinality({i \in 1..Len(calls) : calls[i].op = d})
           /\ \A r \in Runs :
                 runs[r].op = d
                 => /\ runs[r].invoked = 1
                    /\ runs[r].state = "fulfilled"
                       => runs[r].value = OperationResult(r)
                    /\ (runs[r].state = "rejected" /\ ops[d].rollback # "throws")
                       => runs[r].value = OperationFailure(r)
C11_AllowRunsEveryCall == []C11_State /\ [][C11_Step]_vars

C11_Witness ==
    /\ Len(calls) = 2 /\ Len(runs) = 2
    /\ ops[runs[1].op].concurrency = "unset"
    /\ runs[2].op = runs[1].op
    /\ runs[2].concurrent = {1}
    /\ calls[1].promise = 1 /\ calls[2].promise = 2
    /\ \A r \in 1..2 : runs[r].invoked = 1 /\ runs[r].pc = "done"
    /\ runs[1].value = OperationResult(1)
    /\ runs[2].value = OperationResult(2)

\* C12: with policy `allow` and automatic rollback, when runs A (called
\* first) and B (called second) overlap and B's confirming operation
\* succeeds, then once both have settled every cell holds the value B's
\* mutation function computed, whatever the outcome of A.
C12_LaterSuccessWins ==
    \A A, B \in Runs :
        (/\ A < B /\ B = Len(runs) /\ stack = <<>>
         /\ runs[A].op = runs[B].op
         /\ ops[runs[B].op].concurrency \in {"allow", "unset"}
         /\ RollbackOf(B) = "none"
         /\ A \in runs[B].concurrent
         /\ runs[A].invoked = 1 /\ runs[B].invoked = 1
         /\ runs[A].pc = "done" /\ runs[B].pc = "done"
         /\ runs[B].state = "fulfilled")
        => \A k \in SourcesOf(B) : cell[k] = Computed(B)[k]

\* the step moves run r from position `from` to position `to`
Moves(r, from, to) == runs[r].pc = from /\ runs'[r].pc = to

\* C13: for a run with status and error targets configured, the pending
\* announcement (lines 81-82) writes `pending` to the status target and
\* leaves the error target null, it comes before the confirming operation
\* is invoked, and the run's terminal write (`success` or `error`) comes
\* only after that invocation.
C13_Step ==
    \A r \in Runs :
        (ops[runs[r].op].status /\ ops[runs[r].op].error)
        => /\ Moves(r, "pending", "clear")
              => /\ statusCell'[runs[r].op] = "pending"
                 /\ runs[r].invoked = 0
           /\ Moves(r, "clear", "confirm")
              => /\ statusCell'[runs[r].op] = "pending"
                 /\ errorCell'[runs[r].op] = Null
                 /\ runs[r].invoked = 0
           /\ (runs[r].invoked = 0 /\ runs'[r].invoked = 1)
              => /\ runs[r].pc = "confirm"
                 /\ statusCell[runs[r].op] = "pending"
                 /\ errorCell[runs[r].op] = Null
           /\ runs'[r].pc = "confirm" => runs[r].pc \in {"clear", "confirm"}
           /\ runs'[r].pc = "clear" => runs[r].pc \in {"pending", "clear"}
           /\ (Moves(r, "await", "finally") /\ runs[r].opState = "resolved")
              => statusCell'[runs[r].op] = "success" /\ runs[r].invoked = 1
           /\ Moves(r, "status_error", "set_error")
              => statusCell'[runs[r].op] = "error" /\ runs[r].invoked = 1
C13_PendingBeforeTerminal == [][C13_Step]_vars

C13_Witness ==
    /\ Len(runs) = 2 /\ stack = <<2>>
    /\ ops[runs[1].op].status /\ ops[runs[1].op].error
    /\ runs[1].state = "rejected" /\ runs[1].invoked = 1
    /\ runs[2].concurrent = {}
    /\ runs[2].pc = "confirm" /\ runs[2].invoked = 0
    /\ statusCell[runs[2].op] = "pending"
    /\ errorCell[runs[2].op] = Null

\* C14: in any interleaving of runs of one descriptor a run writes its
\* terminal status (`success` or `error`) only while the status target reads
\* `pending`, and the status target never changes from `success` to `error`
\* or from `error` to `success` directly.
C14_Step ==
    \A r \in Runs :
        ops[runs[r].op].status
        => /\ (\/ Moves(r, "await", "finally") /\ runs[r].opState = "resolved"
               \/ Moves(r, "status_error", "set_error"))
              => statusCell[runs[r].op] = "pending"
           /\ ~ (/\ statusCell[runs[r].op] = "success"
                 /\ statusCell'[runs[r].op] = "error")
           /\ ~ (/\ statusCell[runs[r].op] = "error"
                 /\ statusCell'[runs[r].op] = "success")
C14_StatusStateMachine == [][C14_Step]_vars

\* run r has passed the pending announcement (line 81)
Announced(r) == runs[r].pc \in {"clear", "confirm"} \/ runs[r].invoked = 1

\* C15: no step writes `idle` to a status target, and once a run of a
\* descriptor has made its pending announcement the status target reads
\* `pending`, `success` or `error` in every later state.
C15_Step ==
    \A d \in OpKeys :
        statusCell'[d] # statusCell[d] => statusCell'[d] # "idle"
C15_State ==
    \A r \in Runs :
        (ops[runs[r].op].status /\ Announced(r))
        => statusCell[runs[r].op] \in {"pending", "success", "error"}
C15_NeverBackToIdle == []C15_State /\ [][C15_Step]_vars

C15_Witness ==
    /\ Len(runs) = 2 /\ stack = <<>>
    /\ ops[runs[1].op].status
    /\ runs[1].pc = "done" /\ runs[1].state = "fulfilled"
    /\ runs[2].pc = "done" /\ runs[2].state = "rejected"
    /\ Announced(1) /\ Announced(2)
    /\ statusCell[runs[1].op] = "error"

\* C16: every run that makes the pending announcement writes null to the
\* error target, whatever the target held; a non-null value is written to
\* the error target only in the failure path of a run, and it is that
\* run's confirmation failure; after a run that overlapped no other run
\* resolves, the status target reads `success` and the error target null.
C16_Step ==
    /\ \A r \in Runs :
          (ops[runs[r].op].error /\ Moves(r, "clear", "confirm"))
          => errorCell'[runs[r].op] = Null
    /\ \A d \in OpKeys :
          (errorCell'[d] # errorCell[d] /\ errorCell'[d] # Null)
          => \E r \in Runs :
                /\ runs[r].op = d
                /\ Moves(r, "set_error", "finally")
                /\ runs[r].opState = "rejected"
                /\ errorCell'[d] = runs[r].opValue
C16_State ==
    \A r \in Runs :
        (/\ r = Len(runs) /\ runs[r].concurrent = {}
         /\ runs[r].pc = "done" /\ runs[r].state = "fulfilled")
        => /\ ops[runs[r].op].status => statusCell[runs[r].op] = "success"
           /\ ops[runs[r].op].error => errorCell[runs[r].op] = Null
C16_ErrorClearedEveryRun == []C16_State /\ [][C16_Step]_vars

C16_Witness ==
    /\ Len(runs) = 2 /\ stack = <<>>
    /\ ops[runs[1].op].status /\ ops[runs[1].op].error
    /\ runs[1].state = "rejected" /\ runs[1].value = OperationFailure(1)
    /\ runs[2].concurrent = {}
    /\ runs[2].pc = "done" /\ runs[2].state = "fulfilled"
    /\ statusCell[runs[2].op] = "success"
    /\ errorCell[runs[2].op] = Null

\* runs 1..r were issued one after another, each settled before the next
\* started, and all but possibly the last have succeeded
Sequential(r) ==
    /\ \A q \in 1..r : runs[q].concurrent = {} /\ runs[q].op = runs[r].op
    /\ \A q \in 1..(r - 1) : runs[q].state = "fulfilled"

\* C18: for runs issued one after another, each awaited before the next
\* starts and all succeeding, the snapshot of each run is the optimistic
\* value of the run before it and the cells end at the last run's optimistic
\* value; a run adding p followed by a run adding -p leaves every cell at
\* the value it had before the first of the two.
C18_SequentialComposition ==
    \A r \in Runs :
        (r > 1 /\ Sequential(r) /\ runs[r].pc # "snapshot" /\ SourcesOf(r) # {})
        => /\ \A k \in SourcesOf(r) :
                 runs[r].snapshot[k] = runs[r - 1].optimistic[k]
           /\ (r = Len(runs) /\ runs[r].pc = "done" /\ runs[r].state = "fulfilled")
              => \A k \in SourcesOf(r) :
                    /\ cell[k] = Computed(r)[k]
                    /\ (/\ ops[runs[r].op].mutate = "add"
                        /\ runs[r].payload = 0 - runs[r - 1].payload)
                       => cell[k] = runs[r - 1].snapshot[k]

C18_Witness ==
    /\ Len(runs) = 2 /\ stack = <<>> /\ Sequential(2)
    /\ ops[runs[1].op].mutate = "add" /\ SourcesOf(1) = {"a", "b"}
    /\ runs[1].payload = 1 /\ runs[2].payload = -1
    /\ runs[2].pc = "done" /\ runs[2].state = "fulfilled"
    /\ runs[2].snapshot = [k \in {"a", "b"} |-> InitialValue(k) + 1]
    /\ \A k \in Keys : cell[k] = InitialValue(k)

\* C19: however a run ends (success, confirmation failure, or rejection
\* for an empty Source Set), the in-flight counter of its descriptor has
\* been decremented for it once it has settled, and when every run of the
\* descriptor has settled the descriptor has neither a counter entry nor a
\* stored in-flight promise.
C19_BookkeepingReleased ==
    \A d \in OpKeys :
        (ops[d].mutate # "throws" /\ stack = <<>>)
        => /\ Get(inFlightCount, d, 0)
                = Cardinality({r \in Runs : runs[r].op = d /\ runs[r].pc # "done"})
           /\ (\A r \in Runs : runs[r].op = d => runs[r].pc = "done")
              => ~Has(inFlightCount, d) /\ ~Has(inFlightPromise, d)

\* the runs of descriptor d that have started and are not yet finalised
Active(d) == {r \in Runs : runs[r].op = d /\ runs[r].pc # "done"}

\* C20: for a descriptor with a non-empty Source Set and a mutation
\* function that returns, the in-flight counter equals in every state the
\* number of its runs that have started and are not yet finalised, and the
\* counter entry exists exactly when that number is positive.
C20_CounterCountsActiveRuns ==
    \A d \in OpKeys :
        (ops[d].sources # {} /\ ops[d].mutate # "throws")
        => /\ Get(inFlightCount, d, 0) = Cardinality(Active(d))
           /\ Has(inFlightCount, d) <=> Active(d) # {}

C20_Witness ==
    /\ Len(runs) = 2 /\ stack = <<>>
    /\ runs[2].op = runs[1].op
    /\ runs[2].concurrent = {1}
    /\ runs[2].pc = "done" /\ runs[2].state = "rejected"
    /\ runs[1].pc = "await"
    /\ inFlightCount[runs[1].op] = 1

\* C17: an action exposes as status and error the targets its descriptor
\* supplied, and for each one the descriptor omits a cell no descriptor
\* names yet, holding `idle` (status) or null (error); the descriptor the
\* action runs names those exposed cells, every run of the action writes
\* its status and error there and nowhere else, and the descriptor is made
\* once, so under `ignore` a call of action.run made while a run of the
\* action is unsettled returns that run's promise.
C17_State ==
    \A a \in 1..Len(actions) :
        LET A == actions[a] IN
        /\ A.run \in DOMAIN ops /\ A.run \notin OpKeys
        /\ ops[A.run].status /\ ops[A.run].error
        /\ statusOf(A.run) = A.status /\ errorOf(A.run) = A.error
        /\ ops[A.op].status => A.status = statusOf(A.op)
        /\ ops[A.op].error => A.error = errorOf(A.op)
        /\ \A f \in {"sources", "mutate", "rollback", "concurrency"} :
              ops[A.run][f] = ops[A.op][f]
C17_Step ==
    /\ \A d \in DOMAIN ops : ops'[d] = ops[d]
    /\ Len(actions') = Len(actions) + 1
       => LET A == actions'[Len(actions')] IN
          /\ A.run \notin DOMAIN ops
          /\ ~ops[A.op].status
             => /\ \A x \in DOMAIN ops : statusOf(x) # A.status
                /\ statusCell'[A.status] = "idle"
          /\ ~ops[A.op].error
             => /\ \A x \in DOMAIN ops : errorOf(x) # A.error
                /\ errorCell'[A.error] = Null
          /\ \A x \in DOMAIN statusCell : statusCell'[x] = statusCell[x]
          /\ \A x \in DOMAIN errorCell : errorCell'[x] = errorCell[x]
    /\ \A a \in 1..Len(actions) : \A r \in Runs :
          LET A == actions[a] IN
          runs[r].op = A.run
          => /\ Moves(r, "pending", "clear") => statusCell'[A.status] = "pending"
             /\ Moves(r, "clear", "confirm") => errorCell'[A.error] = Null
             /\ (Moves(r, "await", "finally") /\ runs[r].opState = "resolved")
                => statusCell'[A.status] = "success"
             /\ Moves(r, "status_error", "set_error")
                => statusCell'[A.status] = "error"
             /\ Moves(r, "set_error", "finally")
                => errorCell'[A.error] = runs[r].opValue
             /\ runs'[r] # runs[r]
                => /\ \A x \in DOMAIN statusCell \ {A.status} :
                         statusCell'[x] = statusCell[x]
                   /\ \A x \in DOMAIN errorCell \ {A.error} :
                         errorCell'[x] = errorCell[x]
    /\ \A a \in 1..Len(actions) :
          (/\ IsCall /\ NewCall.op = actions[a].run
           /\ ops[actions[a].run].concurrency = "ignore"
           /\ Unsettled(actions[a].run) # {})
          => runs' = runs /\ NewCall.promise \in Unsettled(actions[a].run)
C17_ActionTargets == []C17_State /\ [][C17_Step]_vars

C17_Witness ==
    /\ Len(actions) = 1 /\ Len(calls) = 2 /\ Len(runs) = 1 /\ stack = <<>>
    /\ ops[actions[1].op].status /\ ~ops[actions[1].op].error
    /\ ops[actions[1].op].concurrency = "ignore"
    /\ actions[1].status = actions[1].op /\ actions[1].error = actions[1].run
    /\ calls[1].op = actions[1].run /\ calls[2].op = actions[1].run
    /\ calls[1].promise = calls[2].promise
    /\ runs[1].pc = "done" /\ runs[1].state = "rejected"
    /\ statusCell[actions[1].status] = "error"
    /\ errorCell[actions[1].error] = OperationFailure(1)

\* C21: with policy `ignore`, in every state at most one confirming
\* operation of a descriptor is in flight, for any number of calls and any
\* interleaving of calls and completions.
C21_IgnoreOneInFlight ==
    \A d \in OpKeys :
        ops[d].concurrency = "ignore"
        => Cardinality({r \in Runs : runs[r].op = d /\ runs[r].opState = "pending"}) <= 1

\* C22: with policy `ignore`, a call for the same descriptor made from
\* inside the synchronous phase of a run (from the mutation function, from
\* a cell or status setter, or from the synchronous prefix of the
\* confirming operation) starts no second run, and the confirming
\* operation is invoked once.
C22_Step ==
    (/\ IsCall /\ stack # <<>>
     /\ NewCall.op = runs[Top].op
     /\ ops[NewCall.op].concurrency = "ignore")
    => /\ runs' = runs
       /\ NewCall.attached
C22_ReentrantCallAttaches == [][C22_Step]_vars

\* C23: at the step in which a run writes `pending` to the status target,
\* every cell of the Source Set already holds the value the run's mutation
\* function computed, and it still does when the write is done.
C23_Step ==
    \A r \in Runs :
        (ops[runs[r].op].status /\ Moves(r, "pending", "clear"))
        => /\ statusCell'[runs[r].op] = "pending"
           /\ \A k \in SourcesOf(r) :
                 /\ cell[k] = Computed(r)[k]
                 /\ cell'[k] = Computed(r)[k]
C23_AppliedBeforePending == [][C23_Step]_vars

C23_Witness ==
    /\ Len(runs) = 2 /\ stack = <<2>>
    /\ ops[runs[2].op].status /\ ops[runs[2].op].mutate = "replace"
    /\ SourcesOf(2) = {"a", "b"}
    /\ runs[1].pc = "await"
    /\ runs[2].pc = "clear"
    /\ runs[2].payload # runs[1].payload
    /\ statusCell[runs[2].op] = "pending"
    /\ \A k \in Keys : cell[k] = runs[2].payload

\* C24: under policy `allow` the synchronous phase of a run (Snapshot,
\* Mutate, Apply) is not interleaved with steps of other runs, and when
\* run B is called while the run A called before it awaits confirmation,
\* and no run settled with a failure since A was called, the snapshot of B
\* is the optimistic value of A, whatever order the operations complete in.
C24_Step ==
    stack # <<>> => \A q \in Runs \ {Top} : runs'[q] = runs[q]
C24_State ==
    \A B \in Runs :
        (/\ B > 1
         /\ runs[B].op = runs[B - 1].op
         /\ ops[runs[B].op].concurrency \in {"allow", "unset"}
         /\ SourcesOf(B) # {} /\ ops[runs[B].op].mutate # "throws"
         /\ (B - 1) \in runs[B].concurrent
         /\ \A q \in runs[B - 1].concurrent \ runs[B].concurrent :
               runs[q].state = "fulfilled"
         /\ runs[B].pc # "snapshot")
        => runs[B].snapshot = runs[B - 1].optimistic
C24_ApplicationOrderIsCallOrder == []C24_State /\ [][C24_Step]_vars

C24_Witness ==
    /\ Len(runs) = 2 /\ stack = <<>>
    /\ ops[runs[1].op].concurrency = "allow" /\ ops[runs[1].op].mutate = "add"
    /\ runs[2].concurrent = {1}
    /\ runs[2].pc = "done" /\ runs[2].state = "fulfilled"
    /\ runs[1].pc = "await"
    /\ SourcesOf(1) = {"a"}
    /\ runs[2].snapshot = [k \in {"a"} |-> InitialValue(k) + runs[1].payload]

\* C25: when the confirming operation fails and the rollback handler fails
\* too, neither terminal write happens (a run that overlapped no other run
\* leaves the status target at `pending` and the error target at null),
\* the run rejects with the handler's failure, not the confirmation
\* failure, and the in-flight counter is decremented, so the descriptor
\* has no entry left when no other run is in flight.
C25_Step ==
    \A r \in Runs :
        (RollbackOf(r) = "throws" /\ runs[r].opState = "rejected")
        => /\ Moves(r, "await", "finally")
              => /\ runs'[r].rolledBack = 1
                 /\ UNCHANGED <<statusCell, errorCell>>
           /\ runs[r].pc = "finally"
              => /\ runs'[r].pc \in {"finally", "done"}
                 /\ UNCHANGED <<statusCell, errorCell>>
           /\ Moves(r, "finally", "done")
              => /\ runs'[r].state = "rejected"
                 /\ runs'[r].value = RollbackError
                 /\ runs'[r].value # runs[r].opValue
                 /\ Get(inFlightCount', runs[r].op, 0)
                       = inFlightCount[runs[r].op] - 1
C25_State ==
    \A r \in Runs :
        (/\ RollbackOf(r) = "throws" /\ runs[r].opState = "rejected"
         /\ runs[r].pc = "done"
         /\ runs[r].concurrent = {}
         /\ \A q \in Runs : q > r => runs[q].pc \in {"snapshot", "mutate", "apply", "pending"})
        => /\ ops[runs[r].op].status => statusCell[runs[r].op] = "pending"
           /\ ops[runs[r].op].error => errorCell[runs[r].op] = Null
           /\ (r = Len(runs))
              => /\ ~Has(inFlightCount, runs[r].op)
                 /\ ~Has(inFlightPromise, runs[r].op)
C25_HandlerFailureNotCaught == []C25_State /\ [][C25_Step]_vars

C25_Witness ==
    /\ Len(runs) = 2 /\ stack = <<2>>
    /\ RollbackOf(1) = "throws"
    /\ ops[runs[1].op].concurrency = "ignore"
    /\ ops[runs[1].op].status /\ ops[runs[1].op].error
    /\ runs[1].pc = "done" /\ runs[1].rolledBack = 1
    /\ runs[1].value = RollbackError
    /\ runs[2].pc = "snapshot" /\ runs[2].active = 0
    /\ calls[2].promise = 2
    /\ statusCell[runs[1].op] = "pending"
    /\ errorCell[runs[1].op] = Null
    /\ inFlightCount[runs[1].op] = 1

\* C26: on a confirmation failure the run first rolls back (handler call,
\* or restore of every key), then writes `error` to the status target, then
\* the failure to the error target, and only then rejects; while the status
\* target reads `error` by the write of a run with automatic rollback, the
\* cells hold that run's prior snapshot.
C26_Step ==
    \A r \in Runs :
        LET d == runs[r].op IN
        runs[r].opState = "rejected"
        => /\ Moves(r, "await", "status_error")
              => /\ UNCHANGED <<statusCell, errorCell>>
                 /\ runs'[r].state = "pending"
                 /\ IF RollbackOf(r) = "none"
                    THEN \A k \in SourcesOf(r) : cell'[k] = runs[r].snapshot[k]
                    ELSE runs'[r].rolledBack = 1
           /\ Moves(r, "status_error", "set_error")
              => /\ ops[d].status => statusCell'[d] = "error"
                 /\ UNCHANGED <<cell, errorCell>>
                 /\ runs'[r].state = "pending"
           /\ Moves(r, "set_error", "finally")
              => /\ ops[d].error => errorCell'[d] = runs[r].opValue
                 /\ UNCHANGED <<cell, statusCell>>
                 /\ runs'[r].state = "pending"
           /\ (runs[r].state = "pending" /\ runs'[r].state = "rejected")
              => Moves(r, "finally", "done")
           /\ runs'[r].pc = "set_error" => runs[r].pc \in {"status_error", "set_error"}
           /\ runs'[r].pc = "status_error" => runs[r].pc \in {"await", "status_error"}
C26_State ==
    \A r \in Runs :
        (/\ runs[r].opState = "rejected" /\ RollbackOf(r) = "none"
         /\ runs[r].pc \in {"set_error", "finally"})
        => /\ ops[runs[r].op].status => statusCell[runs[r].op] = "error"
           /\ \A k \in SourcesOf(r) : cell[k] = runs[r].snapshot[k]
C26_RollbackBeforeErrorStatus == []C26_State /\ [][C26_Step]_vars

C26_Witness ==
    /\ Len(runs) = 1 /\ stack = <<1>>
    /\ RollbackOf(1) = "none" /\ SourcesOf(1) = {"a", "b"}
    /\ ops[runs[1].op].status /\ ops[runs[1].op].error
    /\ runs[1].pc = "set_error"
    /\ statusCell[runs[1].op] = "error"
    /\ errorCell[runs[1].op] = Null
    /\ runs[1].state = "pending"
    /\ \A k \in Keys : cell[k] = InitialValue(k)

\* C27: a step of the executor changes a source cell only if it is the
\* Apply step of a run or the rollback of a failed run (where a handler, if
\* there is one, does the writing); the steps of the success path after
\* Apply change no cell, so a value another party wrote while the
\* confirming operation was in flight is still there when the run resolves.
C27_Step ==
    /\ (cell' # cell /\ runs' # runs)
       => \E r \in Runs :
             \/ Moves(r, "apply", "pending")
             \/ /\ runs[r].pc = "await" /\ runs[r].opState = "rejected"
                /\ runs'[r].pc # "await"
    /\ \A r \in Runs :
          (/\ runs'[r] # runs[r]
           /\ runs[r].pc \in {"await", "finally"}
           /\ runs[r].opState # "rejected")
          => cell' = cell
C27_State ==
    \A r \in Runs :
        (/\ runs[r].pc = "finally" /\ runs[r].completion = "return"
         /\ runs[r].concurrent = {} /\ r = Len(runs))
        => \A k \in SourcesOf(r) :
              cell[k] \in {runs[r].optimistic[k], ExternalValue}
C27_NoWriteAfterApply == []C27_State /\ [][C27_Step]_vars

C27_Witness ==
    /\ Len(runs) = 1 /\ stack = <<1>>
    /\ runs[1].pc = "finally" /\ runs[1].completion = "return"
    /\ runs[1].snapshot["a"] = InitialValue("a")
    /\ runs[1].optimistic["a"] = InitialValue("a") + runs[1].payload
    /\ cell["a"] = ExternalValue

\* the step is a call on descriptor d or changes a run of descriptor d
StepOf(d) ==
    \/ IsCall /\ NewCall.op = d
    \/ \E r \in Runs : runs[r].op = d /\ runs'[r] # runs[r]

\* C28: the in-flight maps are keyed by descriptor identity, not by
\* payload: under `ignore` a call attaches to the unsettled run of its own
\* descriptor whatever its payload, a call on a descriptor with no run in
\* flight starts a run whatever runs other descriptors have in flight, and
\* a step of one descriptor leaves the counter entry and the stored promise
\* of every other descriptor as they are.
C28_Step ==
    \A d \in DOMAIN ops :
        /\ (/\ IsCall /\ NewCall.op = d
            /\ ops[d].concurrency = "ignore" /\ Unsettled(d) # {})
           => runs' = runs /\ NewCall.promise \in Unsettled(d)
        /\ (/\ IsCall /\ NewCall.op = d
            /\ \A r \in Runs : runs[r].op = d => runs[r].pc = "done")
           => /\ Len(runs') = Len(runs) + 1
              /\ NewCall.promise = Len(runs')
              /\ inFlightCount'[d] = 1
        /\ StepOf(d)
           => \A e \in DOMAIN ops \ {d} :
                 /\ Has(inFlightCount', e) <=> Has(inFlightCount, e)
                 /\ Get(inFlightCount', e, 0) = Get(inFlightCount, e, 0)
                 /\ Has(inFlightPromise', e) <=> Has(inFlightPromise, e)
                 /\ Get(inFlightPromise', e, 0) = Get(inFlightPromise, e, 0)
C28_KeyedByDescriptor == [][C28_Step]_vars

C28_Witness ==
    /\ Len(runs) = 2 /\ Len(calls) = 3 /\ stack = <<>>
    /\ ops[1].concurrency = "ignore" /\ ops[2].concurrency = "ignore"
    /\ runs[1].op = 1 /\ runs[2].op = 2
    /\ calls[3].op = 1 /\ calls[3].promise = 1
    /\ calls[3].payload # calls[1].payload
    /\ runs[2].pc = "done" /\ runs[1].pc = "await"
    /\ inFlightCount = Put(EmptyMap, 1, 1)
    /\ inFlightPromise = Put(EmptyMap, 1, 1)

\* C29: the confirming operation is called with the run's payload, the
\* value the mutation function returned and the values read from the cells
\* before the mutation; the rollback handler is called with the same three
\* values and the confirmation failure; the snapshot is the run's own and
\* no later step, Apply included, alters it.
C29_Step ==
    \A r \in Runs :
        /\ Moves(r, "snapshot", "mutate")
           => \A k \in SourcesOf(r) : runs'[r].snapshot[k] = cell[k]
        /\ runs[r].snapshot # NoSnapshot => runs'[r].snapshot = runs[r].snapshot
        /\ Moves(r, "apply", "pending")
           => /\ runs'[r].snapshot = runs[r].snapshot
              /\ \A k \in SourcesOf(r) : cell'[k] = runs[r].optimistic[k]
        /\ runs[r].invoked = 1 => runs'[r].opCtx = runs[r].opCtx
C29_State ==
    \A r \in Runs :
        /\ runs[r].invoked = 1
           => /\ runs[r].opCtx.payload = runs[r].payload
              /\ runs[r].opCtx.optimistic = Computed(r)
              /\ runs[r].opCtx.snapshot = runs[r].snapshot
              /\ runs[r].concurrent = {} /\ r = 1
                 => \A k \in SourcesOf(r) :
                       runs[r].opCtx.snapshot[k] = InitialValue(k)
        /\ runs[r].rolledBack = 1
           => runs[r].rollbackCtx =
                 [payload |-> runs[r].opCtx.payload,
                  optimistic |-> runs[r].opCtx.optimistic,
                  snapshot |-> runs[r].opCtx.snapshot,
                  error |-> runs[r].opValue]
C29_OperationContext == []C29_State /\ [][C29_Step]_vars

C29_Witness ==
    /\ Len(runs) = 1 /\ stack = <<>>
    /\ SourcesOf(1) = {"a", "b"} /\ RollbackOf(1) = "custom"
    /\ ops[runs[1].op].mutate = "add"
    /\ runs[1].pc = "done" /\ runs[1].rolledBack = 1
    /\ runs[1].opCtx.payload = 1
    /\ runs[1].opCtx.snapshot = [k \in Keys |-> InitialValue(k)]
    /\ runs[1].rollbackCtx.optimistic = [k \in Keys |-> InitialValue(k) + 1]
    /\ runs[1].rollbackCtx.snapshot = [k \in Keys |-> InitialValue(k)]
    /\ runs[1].rollbackCtx.error = OperationFailure(1)
    /\ \A k \in Keys : cell[k] = CustomValue

\* C32: with policy `ignore`, a call made while no confirming operation of
\* the descriptor is in flight starts a new run and returns that run's
\* promise, whatever way earlier runs ended, also after a run that was
\* rejected because its mutation function failed.
C32_Step ==
    \A d \in OpKeys :
        (/\ IsCall /\ NewCall.op = d
         /\ ops[d].concurrency = "ignore"
         /\ ops[d].sources # {}
         /\ \A r \in Runs : runs[r].op = d => runs[r].opState # "pending")
        => /\ Len(runs') = Len(runs) + 1
           /\ NewCall.promise = Len(runs')
           /\ ~NewCall.attached
C32_NoStalePromise == [][C32_Step]_vars

\* C33: under policy `allow` with automatic rollback, when every run of a
\* set of overlapping runs of one descriptor has failed and all have
\* settled, every cell holds the value it had before the earliest of those
\* runs started, in whatever order the confirming operations failed.
C33_AllFailedRestoresOriginal ==
    (/\ Len(runs) > 1 /\ stack = <<>>
     /\ \A r \in Runs :
           /\ runs[r].op = runs[1].op
           /\ runs[r].pc = "done" /\ runs[r].invoked = 1
           /\ runs[r].state = "rejected"
           /\ r > 1 => (r - 1) \in runs[r].concurrent
     /\ ops[runs[1].op].concurrency \in {"allow", "unset"}
     /\ RollbackOf(1) = "none")
    => \A k \in SourcesOf(1) : cell[k] = runs[1].snapshot[k]

\* C34: in every state, for a descriptor with both targets configured,
\* whenever the status target reads `success` the error target reads null,
\* for any interleaving of overlapping runs.
C34_SuccessMeansNoError ==
    \A d \in OpKeys :
        (ops[d].status /\ ops[d].error /\ statusCell[d] = "success")
        => errorCell[d] = Null

\* C35: in every state, under either policy, the status target of a
\* descriptor reads `pending` whenever a run of the descriptor is awaiting
\* its confirming operation.
C35_PendingWhileInFlight ==
    \A d \in OpKeys :
        (ops[d].status /\ Unsettled(d) # {})
        => statusCell[d] = "pending"


\* ---------------------------------------------------------------- progress
\* The host program under the scheduling of the JavaScript engine: code
\* that has started runs to completion, the continuation of a settled await
\* is run by the microtask queue, and every confirming operation that was
\* invoked settles.  Calls are made at the caller's discretion and are under
\* no fairness.  No custom rollback handler fails.
InitLive ==
    /\ Init
    /\ \A d \in OpKeys : ops[d].rollback \in {"none", "custom"}

Fairness ==
    /\ WF_vars(Snapshot)
    /\ WF_vars(Mutate)
    /\ WF_vars(Apply)
    /\ WF_vars(AnnouncePending)
    /\ WF_vars(ClearError)
    /\ WF_vars(Confirm)
    /\ WF_vars(Return)
    /\ WF_vars(OperationSettles)
    /\ WF_vars(OnSuccess)
    /\ WF_vars(OnFailure)
    /\ WF_vars(StatusError)
    /\ WF_vars(ErrorTarget)
    /\ WF_vars(Finally)

SpecLive == InitLive /\ [][Next]_vars /\ Fairness

\* no code of the executor is running and every run has settled
Quiescent == stack = <<>> /\ \A r \in Runs : runs[r].pc = "done"

\* C31: when every confirming operation eventually settles and no custom
\* rollback handler fails, after any call the program comes to a state
\* where every run has settled, the status target does not read `pending`,
\* and the in-flight bookkeeping of the descriptor has been removed.
C31_EventuallyReleased ==
    \A d \in OpKeys :
        (Len(calls) > 0)
        ~> (/\ Quiescent
            /\ ops[d].status => statusCell[d] # "pending"
            /\ ~Has(inFlightCount, d)
            /\ ~Has(inFlightPromise, d))


\* ------------------------------------------- actions sharing a descriptor
\* The host program makes actions from one descriptor with policy `ignore`
\* that names no status or error target, so that every action creates its
\* own, and also passes the descriptor to runOptimistic itself.
InitShared ==
    /\ InitAction
    /\ \A d \in OpKeys :
          /\ ops[d].concurrency = "ignore"
          /\ ~ops[d].status /\ ~ops[d].error

\* the number of actions the host program makes from its descriptor
MaxSharedActions == 2

\* A task of the host program makes one more action from the descriptor.
CreateSharedAction ==
    /\ stack = <<>>
    /\ Len(actions) < MaxSharedActions
    /\ \E op \in OpKeys : createOptimisticAction(op)

NextShared ==
    \/ CreateSharedAction
    \/ ActionRun
    \/ Next

SpecShared == InitShared /\ [][NextShared]_vars

\* C36: two actions made from one descriptor by separate calls of
\* createOptimisticAction have descriptor identities of their own, distinct
\* from each other and from the descriptor they were made from, and cells
\* of their own; under `ignore` a call on an identity none of whose runs
\* is unfinished starts a run counted from zero whatever the other
\* identities have in flight, a call that attaches attaches to a run of
\* its own identity, and a cell created for an action is written by runs
\* of that action only.
C36_State ==
    \A a \in 1..Len(actions) :
        /\ actions[a].run # actions[a].op
        /\ \A b \in 1..Len(actions) :
              a # b => /\ actions[a].run # actions[b].run
                       /\ actions[a].status # actions[b].status
                       /\ actions[a].error # actions[b].error
C36_Step ==
    /\ \A d \in DOMAIN ops :
          (/\ IsCall /\ NewCall.op = d
           /\ \A r \in Runs : runs[r].op = d => runs[r].pc = "done")
          => /\ Len(runs') = Len(runs) + 1
             /\ NewCall.promise = Len(runs') /\ ~NewCall.attached
             /\ runs'[Len(runs')].op = d
             /\ runs'[Len(runs')].active = 0
             /\ inFlightCount'[d] = 1
    /\ (IsCall /\ NewCall.attached)
       => /\ NewCall.promise \in Runs
          /\ runs[NewCall.promise].op = NewCall.op
    /\ \A a \in 1..Len(actions) :
          (\/ statusCell'[actions[a].status] # statusCell[actions[a].status]
           \/ errorCell'[actions[a].error] # errorCell[actions[a].error])
          => /\ \E r \in Runs : runs'[r] # runs[r]
             /\ \A r \in Runs :
                   runs'[r] # runs[r] => runs[r].op = actions[a].run
C36_ActionsIndependent == []C36_State /\ [][C36_Step]_vars

C36_Witness ==
    /\ Len(actions) = 2 /\ Len(runs) = 2 /\ Len(calls) = 3 /\ stack = <<>>
    /\ ops[actions[1].op].concurrency = "ignore"
    /\ actions[1].op = actions[2].op
    /\ runs[1].op = actions[1].run /\ runs[2].op = actions[2].run
    /\ runs[1].pc = "await" /\ runs[1].opState = "pending"
    /\ 1 \in runs[2].concurrent
    /\ runs[2].pc = "done" /\ runs[2].state = "fulfilled"
    /\ calls[3].op = actions[1].run /\ calls[3].attached /\ calls[3].promise = 1
    /\ statusCell[actions[1].status] = "pending"
    /\ statusCell[actions[2].status] = "success"
====
